---- MODULE Spec2Model ----
(***************************************************************************)
(* Model of the List4Free chat widget: the conversation reducer, the       *)
(* per-step handler handleUserResponse, sendMessage, the chat-initialising *)
(* effect, the COMPLETED effect with its hasCompletedRef latch, and the    *)
(* helpers of utils/conversationState (parser, formatters,                 *)
(* formatFinalPreferences).                                                *)
(*                                                                         *)
(* Representation.  A JS string is a sequence of pieces.  Text the user    *)
(* types, option literals and seeded values are sequences of one-character *)
(* strings, so the parser and the validators work on characters.  A fixed  *)
(* bot prompt is a one-piece sequence.  A template string is the           *)
(* concatenation of its parts.  JS null is Null (the empty sequence) and a *)
(* non-null value v is Some(v) (the one-element sequence).                 *)
(***************************************************************************)
EXTENDS Integers, Sequences, FiniteSets, TLC

Null == <<>>
Some(v) == <<v>>
IsNull(o) == o = <<>>
Val(o) == o[1]

(***************************************************************************)
(* Characters and numbers                                                  *)
(***************************************************************************)
Digits == <<"0", "1", "2", "3", "4", "5", "6", "7", "8", "9">>
UpperCase == <<"A", "B", "C", "D", "E", "F", "G", "H", "I", "J", "K", "L", "M",
               "N", "O", "P", "Q", "R", "S", "T", "U", "V", "W", "X", "Y", "Z">>
LowerCase == <<"a", "b", "c", "d", "e", "f", "g", "h", "i", "j", "k", "l", "m",
               "n", "o", "p", "q", "r", "s", "t", "u", "v", "w", "x", "y", "z">>

IsDigit(c) == \E i \in 1..10 : Digits[i] = c
DigitVal(c) == (CHOOSE i \in 1..10 : Digits[i] = c) - 1
IsSpace(c) == c = " "

\* String.prototype.toLowerCase, one character
LowerChar(c) ==
    IF \E i \in 1..26 : UpperCase[i] = c
    THEN LowerCase[CHOOSE i \in 1..26 : UpperCase[i] = c]
    ELSE c

toLowerCase(s) == [i \in 1..Len(s) |-> LowerChar(s[i])]

\* parseInt on a run of decimal digits
RECURSIVE parseInt(_)
parseInt(ds) ==
    IF Len(ds) = 0 THEN 0
    ELSE 10 * parseInt(SubSeq(ds, 1, Len(ds) - 1)) + DigitVal(ds[Len(ds)])

\* `${n}` for a non-negative integer
RECURSIVE ToStr(_)
ToStr(n) ==
    IF n < 10 THEN <<Digits[n + 1]>>
    ELSE ToStr(n \div 10) \o <<Digits[(n % 10) + 1]>>

\* String.prototype.includes
StartsAt(s, sub, i) ==
    /\ i + Len(sub) - 1 <= Len(s)
    /\ \A k \in 1..Len(sub) : s[i + k - 1] = sub[k]
includes(s, sub) == \E i \in 1..(Len(s) + 1) : StartsAt(s, sub, i)

\* String.prototype.trim (spaces)
RECURSIVE TrimLeft(_)
TrimLeft(s) == IF Len(s) > 0 /\ IsSpace(s[1]) THEN TrimLeft(Tail(s)) ELSE s
RECURSIVE TrimRight(_)
TrimRight(s) ==
    IF Len(s) > 0 /\ IsSpace(s[Len(s)]) THEN TrimRight(SubSeq(s, 1, Len(s) - 1)) ELSE s
trim(s) == TrimRight(TrimLeft(s))

\* position after the maximal run of spaces / digits starting at i
RECURSIVE SkipSpaces(_, _)
SkipSpaces(s, i) == IF i <= Len(s) /\ IsSpace(s[i]) THEN SkipSpaces(s, i + 1) ELSE i
RECURSIVE SkipDigits(_, _)
SkipDigits(s, i) == IF i <= Len(s) /\ IsDigit(s[i]) THEN SkipDigits(s, i + 1) ELSE i

\* keyword, optional suffix, \s*, (\d+) tried at position i: the captured
\* digits, or Null.  Models /min(?:imum)?\s*(\d+)/ and /max(?:imum)?\s*(\d+)/.
KeywordAt(s, kw, i) ==
    LET tryAfter(j) ==
            LET d == SkipSpaces(s, j)
                e == SkipDigits(s, d)
            IN  IF e > d THEN Some(SubSeq(s, d, e - 1)) ELSE Null
        long == kw \o <<"i", "m", "u", "m">>
    IN  IF StartsAt(s, long, i) /\ ~IsNull(tryAfter(i + Len(long)))
        THEN tryAfter(i + Len(long))
        ELSE IF StartsAt(s, kw, i) THEN tryAfter(i + Len(kw))
        ELSE Null

\* String.prototype.match, leftmost match of the keyword pattern
KeywordMatch(s, kw) ==
    LET hits == {i \in 1..Len(s) : ~IsNull(KeywordAt(s, kw, i))}
    IN  IF hits = {} THEN Null
        ELSE KeywordAt(s, kw, CHOOSE i \in hits : \A j \in hits : i <= j)

\* /(\d+)\s*(?:-|to)\s*(\d+)/ tried at position i: <<first, second>> or Null
RangeAt(s, i) ==
    LET e1 == SkipDigits(s, i)
        sp == SkipSpaces(s, e1)
        sep == IF StartsAt(s, <<"-">>, sp) THEN sp + 1
               ELSE IF StartsAt(s, <<"t", "o">>, sp) THEN sp + 2
               ELSE 0
        d2 == SkipSpaces(s, sep)
        e2 == SkipDigits(s, d2)
    IN  IF e1 > i /\ sep > 0 /\ e2 > d2
        THEN Some(<<SubSeq(s, i, e1 - 1), SubSeq(s, d2, e2 - 1)>>)
        ELSE Null

RangeMatch(s) ==
    LET hits == {i \in 1..Len(s) : ~IsNull(RangeAt(s, i))}
    IN  IF hits = {} THEN Null
        ELSE RangeAt(s, CHOOSE i \in hits : \A j \in hits : i <= j)

\* /^(\d+)$/
SingleNumberMatch(s) ==
    IF Len(s) > 0 /\ \A i \in 1..Len(s) : IsDigit(s[i]) THEN Some(s) ELSE Null

\* the min / max a keyword match leaves: parseInt of the capture unless the
\* text has "no min" / "no max"
KeywordBound(text, match, blocker) ==
    IF ~IsNull(match) /\ ~includes(text, blocker) THEN Some(parseInt(Val(match))) ELSE Null

\* the assignments of extractBedroomNumbers; a later one overwrites an earlier
\* one: singleNumber sets both after rangeMatch sets both after minMatch, maxMatch
AssignBedrooms(text, minMatch, maxMatch, rangeMatch, singleNumber) ==
    IF ~IsNull(singleNumber)
    THEN [min |-> Some(parseInt(Val(singleNumber))),
          max |-> Some(parseInt(Val(singleNumber)))]
    ELSE IF ~IsNull(rangeMatch)
    THEN [min |-> Some(parseInt(Val(rangeMatch)[1])),
          max |-> Some(parseInt(Val(rangeMatch)[2]))]
    ELSE [min |-> KeywordBound(text, minMatch, <<"n", "o", " ", "m", "i", "n">>),
          max |-> KeywordBound(text, maxMatch, <<"n", "o", " ", "m", "a", "x">>)]

extractLowerCased(text) ==
    IF includes(text, <<"s", "t", "u", "d", "i", "o">>)
    THEN [min |-> Some(0), max |-> Some(0)]
    ELSE AssignBedrooms(text, KeywordMatch(text, <<"m", "i", "n">>),
                        KeywordMatch(text, <<"m", "a", "x">>), RangeMatch(text),
                        SingleNumberMatch(text))

\* extractBedroomNumbers: {min, max}, each Null or Some(number)
extractBedroomNumbers(input) == extractLowerCased(toLowerCase(input))

\* /^[^\s@]+@[^\s@]+\.[^\s@]+$/ of the EMAIL_REQUEST case
emailRegexTest(s) ==
    /\ \A i \in 1..Len(s) : ~IsSpace(s[i])
    /\ \E a \in 2..Len(s) :
        /\ s[a] = "@"
        /\ \A i \in 1..Len(s) : s[i] = "@" => i = a
        /\ \E d \in (a + 2)..(Len(s) - 1) : s[d] = "."

IsLetter(c) == \E i \in 1..26 : UpperCase[i] = c \/ LowerCase[i] = c

\* /^[a-zA-Z0-9._-]+@[a-zA-Z0-9.-]+\.[a-zA-Z]{2,6}$/ of validateInput
formEmailRegexTest(s) ==
    \E a \in 2..Len(s) : \E d \in (a + 2)..(Len(s) - 2) :
        /\ s[a] = "@"
        /\ s[d] = "."
        /\ Len(s) - d <= 6
        /\ \A i \in 1..(a - 1) : IsLetter(s[i]) \/ IsDigit(s[i]) \/ s[i] \in {".", "_", "-"}
        /\ \A i \in (a + 1)..(d - 1) : IsLetter(s[i]) \/ IsDigit(s[i]) \/ s[i] \in {".", "-"}
        /\ \A i \in (d + 1)..Len(s) : IsLetter(s[i])

\* validateInput(input, type)
validateInput(input, type) ==
    CASE type = "email" -> formEmailRegexTest(input)
      [] type = "location" -> Len(trim(input)) >= 3
      [] OTHER -> TRUE

(***************************************************************************)
(* Literals the code compares input with, and the closed vocabularies      *)
(***************************************************************************)
YesPlease == <<"Y", "e", "s", ",", " ", "p", "l", "e", "a", "s", "e", "!">>
NoThanks == <<"N", "o", ",", " ", "t", "h", "a", "n", "k", "s", ".">>
Confirm == <<"C", "o", "n", "f", "i", "r", "m">>
Edit == <<"E", "d", "i", "t">>
Yes == <<"Y", "e", "s">>
No == <<"N", "o">>
ASAP == <<"A", "S", "A", "P">>
Months13 == <<"1", "-", "3", " ", "m", "o", "n", "t", "h", "s">>
Months36 == <<"3", "-", "6", " ", "m", "o", "n", "t", "h", "s">>
NotSureYet == <<"N", "o", "t", " ", "s", "u", "r", "e", " ", "y", "e", "t">>
DontShare == <<"D", "o", "n", "'", "t", " ", "p", "r", "e", "f", "e", "r", " ", "t", "o", " ", "s", "h", "a", "r", "e", " ", "t", "h", "e", "s", "e", " ", "d", "e", "t", "a", "i", "l", "s">>
Land == <<"L", "a", "n", "d">>
Residential == <<"R", "e", "s", "i", "d", "e", "n", "t", "i", "a", "l">>
Commercial == <<"C", "o", "m", "m", "e", "r", "c", "i", "a", "l">>
Leisure == <<"L", "e", "i", "s", "u", "r", "e">>
Studio == <<"S", "t", "u", "d", "i", "o">>
Flat == <<"F", "l", "a", "t">>
DetachedHouse == <<"D", "e", "t", "a", "c", "h", "e", "d", " ", "H", "o", "u", "s", "e">>
Villa == <<"V", "i", "l", "l", "a">>
Luxury == <<"L", "u", "x", "u", "r", "y">>

CONVERSATION_STATES ==
    {"INITIAL", "CONFIRM_FILTERS", "EDIT_LOCATION", "PROPERTY_TYPE", "BEDROOMS",
     "PUBLIC_TRANSPORT", "SCHOOLS", "TIMELINE", "FINANCIAL_READINESS",
     "EMAIL_REQUEST", "COMPLETED"}

\* Object.values(PROPERTY_TYPES).map(type => typeof type === 'string' ? type : type.label)
PROPERTY_TYPES == <<Land, Residential, Commercial, Leisure>>
RESIDENTIAL_SUBTYPES == <<Studio, Flat, DetachedHouse, Villa, Luxury>>
TIMELINE_OPTIONS == <<ASAP, Months13, Months36, NotSureYet>>

(***************************************************************************)
(* Objects.  A JS object is a function from its keys; Spread(f, g) is      *)
(* {...f, ...g}.                                                           *)
(***************************************************************************)
Spread(f, g) ==
    [k \in (DOMAIN f) \cup (DOMAIN g) |-> IF k \in DOMAIN g THEN g[k] ELSE f[k]]

NoRange == [min |-> Null, max |-> Null]

initialState ==
    [currentState |-> "INITIAL",
     filters |-> [location |-> Null, propertyType |-> Null, propertySubtype |-> Null,
                  bedrooms |-> NoRange, price |-> NoRange, existingFilters |-> FALSE],
     preferences |-> [publicTransport |-> Null, schools |-> Null, timeline |-> Null,
                      hasPreApprovedLoan |-> Null],
     userEmail |-> Null]

createInitialStateWithFilters(searchCriteria) ==
    [initialState EXCEPT
        !.filters = Spread(Spread(initialState.filters, searchCriteria),
                           [existingFilters |-> TRUE])]

conversationReducer(state, action) ==
    CASE action.type = "UPDATE_STATE" -> [state EXCEPT !.currentState = action.payload]
      [] action.type = "UPDATE_FILTERS" ->
            [state EXCEPT !.filters = Spread(state.filters, action.payload)]
      [] action.type = "UPDATE_PREFERENCES" ->
            [state EXCEPT !.preferences = Spread(state.preferences, action.payload)]
      [] action.type = "SET_EMAIL" -> [state EXCEPT !.userEmail = action.payload]
      [] OTHER -> state

\* the dispatches of one handler, applied in order to the reducer's state
RECURSIVE Dispatch(_, _)
Dispatch(state, actions) ==
    IF actions = <<>> THEN state
    ELSE Dispatch(conversationReducer(state, Head(actions)), Tail(actions))

(***************************************************************************)
(* Message Formatter (utils/conversationState)                             *)
(***************************************************************************)
\* JS truthiness of a nullable number, boolean and string
TruthyNum(o) == ~IsNull(o) /\ Val(o) # 0
TruthyBool(o) == ~IsNull(o) /\ Val(o)
TruthyText(o) == ~IsNull(o) /\ Len(Val(o)) > 0

\* Number.prototype.toLocaleString: digits grouped in threes
RECURSIVE GroupDigits(_)
GroupDigits(ds) ==
    IF Len(ds) <= 3 THEN ds
    ELSE GroupDigits(SubSeq(ds, 1, Len(ds) - 3)) \o <<",">>
            \o SubSeq(ds, Len(ds) - 2, Len(ds))
toLocaleString(n) == GroupDigits(ToStr(n))

formatPrice(min, max) ==
    IF TruthyNum(min) /\ TruthyNum(max)
    THEN Some(<<"between ", "£">> \o toLocaleString(Val(min)) \o <<" and ", "£">>
                \o toLocaleString(Val(max)))
    ELSE IF TruthyNum(min) THEN Some(<<"from ", "£">> \o toLocaleString(Val(min)))
    ELSE IF TruthyNum(max) THEN Some(<<"up to ", "£">> \o toLocaleString(Val(max)))
    ELSE Null

formatBedrooms(min, max) ==
    IF IsNull(min) /\ IsNull(max) THEN Null
    ELSE IF min = max THEN Some(ToStr(Val(min)))
    ELSE IF TruthyNum(min) /\ TruthyNum(max)
         THEN Some(ToStr(Val(min)) \o <<"-">> \o ToStr(Val(max)))
    ELSE IF TruthyNum(min) THEN Some(ToStr(Val(min)) \o <<"+">>)
    ELSE IF TruthyNum(max) THEN Some(<<"up to ">> \o ToStr(Val(max)))
    ELSE Null

isResidentialProperty(propertyType, propertySubtype) ==
    \/ propertyType = Some(Residential)
    \/ /\ TruthyText(propertySubtype)
       /\ \E i \in 1..Len(RESIDENTIAL_SUBTYPES) : RESIDENTIAL_SUBTYPES[i] = Val(propertySubtype)

\* Array.prototype.join(' ')
RECURSIVE JoinSpace(_)
JoinSpace(parts) ==
    IF parts = <<>> THEN <<>>
    ELSE IF Len(parts) = 1 THEN parts[1]
    ELSE parts[1] \o <<" ">> \o JoinSpace(Tail(parts))

\* v === null || (typeof v === 'object' && Object.values(v).every(x => x === null)),
\* for the value stored under key k of a filters object
IsNullOrAllNull(k, v) ==
    CASE k \in {"location", "propertyType", "propertySubtype"} -> IsNull(v)
      [] k \in {"bedrooms", "price"} -> IsNull(v.min) /\ IsNull(v.max)
      [] OTHER -> FALSE   \* existingFilters holds a boolean, never null

generateConfirmationMessage(filters) ==
    IF \A k \in DOMAIN filters : IsNullOrAllNull(k, filters[k]) THEN Null
    ELSE
      LET bedroomText == formatBedrooms(filters.bedrooms.min, filters.bedrooms.max)
          bedroomPart ==
              IF /\ isResidentialProperty(filters.propertyType, filters.propertySubtype)
                 /\ filters.propertySubtype # Some(Studio)
                 /\ ~IsNull(bedroomText)
              THEN <<Val(bedroomText) \o <<" bedroom">>>>
              ELSE <<>>
          typePart ==
              IF TruthyText(filters.propertySubtype)
              THEN <<toLowerCase(Val(filters.propertySubtype))>>
              ELSE IF TruthyText(filters.propertyType)
                   THEN <<toLowerCase(Val(filters.propertyType)) \o <<" properties">>>>
              ELSE <<<<"properties">>>>
          propertyDesc ==
              IF filters.propertySubtype = Some(Studio) THEN <<"studio flats">>
              ELSE JoinSpace(bedroomPart \o typePart)
          locationPart ==
              IF TruthyText(filters.location)
              THEN <<<<"in ">> \o Val(filters.location)>>
              ELSE <<>>
          priceText == formatPrice(filters.price.min, filters.price.max)
          pricePart == IF ~IsNull(priceText) THEN <<Val(priceText)>> ELSE <<>>
          parts == <<<<"looking for">>, propertyDesc>> \o locationPart \o pricePart
      IN  Some(<<"Just to confirm, you're ">> \o JoinSpace(parts)
                 \o <<"? Do you want to refine these details?">>)

\* x || null
OrNullText(o) == IF TruthyText(o) THEN o ELSE Null
OrNullNum(o) == IF TruthyNum(o) THEN o ELSE Null
OrNullBool(o) == IF TruthyBool(o) THEN o ELSE Null

\* formatFinalPreferences: the object that is left after the null-valued keys
\* are deleted.  bedrooms and price hold an object, which is never === null.
formatFinalPreferences(state) ==
    LET preferences ==
            [location |-> OrNullText(state.filters.location),
             propertyType |-> OrNullText(state.filters.propertyType),
             propertySubtype |-> OrNullText(state.filters.propertySubtype),
             bedrooms |-> Some([min |-> OrNullNum(state.filters.bedrooms.min),
                                max |-> OrNullNum(state.filters.bedrooms.max)]),
             price |-> Some([min |-> OrNullNum(state.filters.price.min),
                             max |-> OrNullNum(state.filters.price.max)]),
             publicTransport |-> OrNullBool(state.preferences.publicTransport),
             schools |-> OrNullBool(state.preferences.schools),
             timeline |-> OrNullText(state.preferences.timeline),
             hasPreApprovedLoan |-> OrNullBool(state.preferences.hasPreApprovedLoan)]
        kept == {k \in DOMAIN preferences : ~IsNull(preferences[k])}
    IN  [k \in kept |-> Val(preferences[k])]

\* formatConversationSummary: timestamps are left out
formatConversationSummary(messages) ==
    LET mapped == [i \in 1..Len(messages) |->
                      [sender |-> messages[i].sender, text |-> messages[i].text,
                       options |-> messages[i].options]]
    IN  SelectSeq(mapped, LAMBDA m : TruthyText(m.text))

(***************************************************************************)
(* Chat messages and the fixed prompts                                     *)
(***************************************************************************)
Message(sender, text, options, isHint, id) ==
    [sender |-> sender, text |-> text, options |-> options, isHint |-> isHint, id |-> id]

\* what handleUserResponse returns: a bot message that has no id yet
Response(text, options) == [text |-> text, options |-> options]

AskLocationText == <<"Please enter your preferred location.">>
FarewellText ==
    <<"Thank you for your time. Feel free to come back if you change your mind!">>
PublicTransportText == <<"Do you need public transport close to your property?">>
SchoolsText == <<"Do you need any schools close to your property?">>
PropertyTypeText == <<"What type of property are you looking for?">>
BedroomsQuestionText == <<"How many bedrooms are you looking for?">>
BedroomsHintText ==
    <<"You can specify: a single number, a range, min/max, 'No min' or 'No max', 'Studio'">>
BedroomsErrorText ==
    <<"I couldn't understand the number of bedrooms. Could you please specify it in one of these formats?">>
TimelineText == <<"When do you ideally plan to complete the purchase?">>
FinancialText ==
    <<"We would offer you a special treatment in case you have a pre-approved loan agreement. Do you have one?">>
LoanHintText ==
    <<"Please note that you may be requested to show a Pre-Approved Loan Agreement before the viewing of a property.">>
EmailRequestText ==
    <<"Please leave with us your email address and we'll come back to you within 2 hours.">>
InvalidEmailText == <<"Please enter a valid email address.">>
CompletedText ==
    <<"Great! Keep an eye on your inbox - and don't forget your spam folder just in case! Thank you!">>
FallbackText ==
    <<"Thank you for using our service! We'll process your preferences and get back to you soon.">>
\* the values of inputError
NoError == <<>>
FormErrorText == <<"Please enter a valid email address">>
\* response.initial_popup, the text the backend sends for the opening prompt
InitialPopupText ==
    <<"Looks like there aren't any properties matching your search. Would you like us to conduct a deeper search on the web?">>

UpdateState(s) == [type |-> "UPDATE_STATE", payload |-> s]
UpdateFilters(p) == [type |-> "UPDATE_FILTERS", payload |-> p]
UpdatePreferences(p) == [type |-> "UPDATE_PREFERENCES", payload |-> p]
SetEmail(e) == [type |-> "SET_EMAIL", payload |-> e]

\* the "Got it! Looking for ..." phrase of the BEDROOMS case
bedroomConfirmation(min, max) ==
    LET plural(n) == IF n # 1 THEN <<"s">> ELSE <<>>
    IN  IF min = Some(0) /\ max = Some(0) THEN <<"a studio flat">>
        ELSE IF IsNull(min) /\ ~IsNull(max)
             THEN <<"properties with up to ">> \o ToStr(Val(max)) \o <<" bedroom">>
                    \o plural(Val(max))
        ELSE IF ~IsNull(min) /\ IsNull(max)
             THEN <<"properties with ">> \o ToStr(Val(min)) \o <<" or more bedroom">>
                    \o plural(Val(min))
        ELSE IF min = max
             THEN <<"a ">> \o ToStr(Val(min)) \o <<"-bedroom property">>
        ELSE <<"properties with ">> \o ToStr(Val(min)) \o <<" to ">> \o ToStr(Val(max))
                \o <<" bedrooms">>

(***************************************************************************)
(* handleUserResponse(input), run in a closure that holds `state`, at time *)
(* t = Date.now().  The result lists what the call does:                   *)
(*   dispatched - the reducer actions it dispatches, in order              *)
(*   appended   - the messages it appends itself with setMessages          *)
(*   lastActive - the id it passes to setLastActiveMessageId, or Null      *)
(*   response   - the bot message it returns, or Null (null or undefined)  *)
(***************************************************************************)
Outcome(dispatched, appended, lastActive, response) ==
    [dispatched |-> dispatched, appended |-> appended, lastActive |-> lastActive,
     response |-> response]

\* mutant: the first step after INITIAL is the undeclared LOCATION_INPUT
handleInitial_LocationInput(state, input) ==
    IF input = YesPlease
    THEN Outcome(<<UpdateState("LOCATION_INPUT")>>, <<>>, Null,
                 Some(Response(Some(AskLocationText), Null)))
    ELSE Outcome(<<UpdateState("COMPLETED")>>, <<>>, Null,
                 Some(Response(Some(FarewellText), Null)))

\* mutant: only the literal "No, thanks." declines; other input is dropped
handleInitial_StrictDecline(state, input) ==
    IF input = YesPlease
    THEN IF state.filters.existingFilters
         THEN Outcome(<<UpdateState("CONFIRM_FILTERS")>>, <<>>, Null,
                      Some(Response(generateConfirmationMessage(state.filters),
                                    Some(<<Confirm, Edit>>))))
         ELSE Outcome(<<UpdateState("CONFIRM_FILTERS"), UpdateState("EDIT_LOCATION")>>,
                      <<>>, Null, Some(Response(Some(AskLocationText), Null)))
    ELSE IF input = NoThanks
    THEN Outcome(<<UpdateState("COMPLETED")>>, <<>>, Null,
                 Some(Response(Some(FarewellText), Null)))
    ELSE Outcome(<<>>, <<>>, Null, Null)

handleInitial(state, input) ==
    IF input = YesPlease
    THEN IF state.filters.existingFilters
         THEN Outcome(<<UpdateState("CONFIRM_FILTERS")>>, <<>>, Null,
                      Some(Response(generateConfirmationMessage(state.filters),
                                    Some(<<Confirm, Edit>>))))
         ELSE Outcome(<<UpdateState("CONFIRM_FILTERS"), UpdateState("EDIT_LOCATION")>>,
                      <<>>, Null, Some(Response(Some(AskLocationText), Null)))
    ELSE Outcome(<<UpdateState("COMPLETED")>>, <<>>, Null,
                 Some(Response(Some(FarewellText), Null)))

handleConfirmFilters(state, input) ==
    IF input = Confirm
    THEN Outcome(<<UpdateState("PUBLIC_TRANSPORT")>>, <<>>, Null,
                 Some(Response(Some(PublicTransportText), Some(<<Yes, No>>))))
    ELSE IF input = Edit
    THEN Outcome(<<UpdateState("EDIT_LOCATION")>>, <<>>, Null,
                 Some(Response(Some(AskLocationText), Null)))
    ELSE Outcome(<<>>, <<>>, Null, Null)   \* break: the function returns undefined

\* mutant: a new location starts the filters afresh
handleEditLocation_ResetsFilters(state, input) ==
    Outcome(<<UpdateFilters([location |-> Some(input), propertySubtype |-> Null,
                             price |-> NoRange]),
              UpdateState("PROPERTY_TYPE")>>,
            <<>>, Null, Some(Response(Some(PropertyTypeText), Some(PROPERTY_TYPES))))

handleEditLocation(state, input) ==
    Outcome(<<UpdateFilters([location |-> Some(input)]), UpdateState("PROPERTY_TYPE")>>,
            <<>>, Null, Some(Response(Some(PropertyTypeText), Some(PROPERTY_TYPES))))

\* mutant: every property type is asked for bedrooms
handlePropertyType_AlwaysBedrooms(state, input, t) ==
    Outcome(<<UpdateFilters([propertyType |-> Some(input)]), UpdateState("BEDROOMS")>>,
            <<Message("bot", Some(BedroomsQuestionText), Null, FALSE, t),
              Message("bot", Some(BedroomsHintText), Null, TRUE, t + 1)>>,
            Some(t), Null)

handlePropertyType(state, input, t) ==
    IF input = Residential
    THEN Outcome(<<UpdateFilters([propertyType |-> Some(input)]), UpdateState("BEDROOMS")>>,
                 <<Message("bot", Some(BedroomsQuestionText), Null, FALSE, t),
                   Message("bot", Some(BedroomsHintText), Null, TRUE, t + 1)>>,
                 Some(t), Null)
    ELSE Outcome(<<UpdateFilters([propertyType |-> Some(input)]),
                   UpdateState("PUBLIC_TRANSPORT")>>,
                 <<>>, Null, Some(Response(Some(PublicTransportText), Some(<<Yes, No>>))))

\* mutant: an answer that could not be parsed still moves the step on
bedroomsOutcome_AdvancesOnError(input, min, max, t) ==
    IF IsNull(min) /\ IsNull(max)
       /\ ~includes(toLowerCase(input), <<"s", "t", "u", "d", "i", "o">>)
    THEN Outcome(<<UpdateState("PUBLIC_TRANSPORT")>>,
                 <<Message("bot", Some(BedroomsErrorText), Null, FALSE, t),
                   Message("bot", Some(BedroomsHintText), Null, TRUE, t + 1)>>,
                 Some(t + 1), Null)
    ELSE Outcome(<<UpdateFilters([bedrooms |-> [min |-> min, max |-> max]]),
                   UpdateState("PUBLIC_TRANSPORT")>>,
                 <<Message("bot", Some(<<"Got it! Looking for ">>
                                        \o bedroomConfirmation(min, max) \o <<".">>),
                           Null, FALSE, t),
                   Message("bot", Some(PublicTransportText), Some(<<Yes, No>>),
                           FALSE, t + 1)>>,
                 Some(t + 1), Null)

bedroomsOutcome(input, min, max, t) ==
    IF IsNull(min) /\ IsNull(max)
       /\ ~includes(toLowerCase(input), <<"s", "t", "u", "d", "i", "o">>)
    THEN Outcome(<<>>,
                 <<Message("bot", Some(BedroomsErrorText), Null, FALSE, t),
                   Message("bot", Some(BedroomsHintText), Null, TRUE, t + 1)>>,
                 Some(t + 1), Null)
    ELSE Outcome(<<UpdateFilters([bedrooms |-> [min |-> min, max |-> max]]),
                   UpdateState("PUBLIC_TRANSPORT")>>,
                 <<Message("bot", Some(<<"Got it! Looking for ">>
                                        \o bedroomConfirmation(min, max) \o <<".">>),
                           Null, FALSE, t),
                   Message("bot", Some(PublicTransportText), Some(<<Yes, No>>),
                           FALSE, t + 1)>>,
                 Some(t + 1), Null)

parsedOutcome(input, parsed, t) == bedroomsOutcome(input, parsed.min, parsed.max, t)

handleBedrooms(state, input, t) == parsedOutcome(input, extractBedroomNumbers(input), t)

\* mutant: only the literal "No" is stored as false
handlePublicTransport_NotNo(state, input) ==
    Outcome(<<UpdatePreferences([publicTransport |-> Some(input # No)]),
              UpdateState("SCHOOLS")>>,
            <<>>, Null, Some(Response(Some(SchoolsText), Some(<<Yes, No>>))))

handlePublicTransport(state, input) ==
    Outcome(<<UpdatePreferences([publicTransport |-> Some(input = Yes)]),
              UpdateState("SCHOOLS")>>,
            <<>>, Null, Some(Response(Some(SchoolsText), Some(<<Yes, No>>))))

handleSchools(state, input) ==
    Outcome(<<UpdatePreferences([schools |-> Some(input = Yes)]), UpdateState("TIMELINE")>>,
            <<>>, Null, Some(Response(Some(TimelineText), Some(TIMELINE_OPTIONS))))

\* mutant: a later timeline is stored together with "no pre-approved loan"
handleTimeline_StoresLoan(state, input, t) ==
    IF input = ASAP
    THEN Outcome(<<UpdatePreferences([timeline |-> Some(input)]),
                   UpdateState("FINANCIAL_READINESS")>>,
                 <<>>, Null,
                 Some(Response(Some(FinancialText), Some(<<Yes, No, DontShare>>))))
    ELSE Outcome(<<UpdatePreferences([timeline |-> Some(input),
                                      hasPreApprovedLoan |-> Some(FALSE)]),
                   UpdateState("EMAIL_REQUEST")>>,
                 <<Message("bot", Some(LoanHintText), Null, TRUE, t),
                   Message("bot", Some(EmailRequestText), Null, FALSE, t + 1)>>,
                 Null, Null)

\* mutant: every timeline is asked about financial readiness
handleTimeline_AlwaysFinancial(state, input, t) ==
    Outcome(<<UpdatePreferences([timeline |-> Some(input)]),
              UpdateState("FINANCIAL_READINESS")>>,
            <<>>, Null,
            Some(Response(Some(FinancialText), Some(<<Yes, No, DontShare>>))))

handleTimeline(state, input, t) ==
    IF input = ASAP
    THEN Outcome(<<UpdatePreferences([timeline |-> Some(input)]),
                   UpdateState("FINANCIAL_READINESS")>>,
                 <<>>, Null,
                 Some(Response(Some(FinancialText), Some(<<Yes, No, DontShare>>))))
    ELSE Outcome(<<UpdatePreferences([timeline |-> Some(input)]),
                   UpdateState("EMAIL_REQUEST")>>,
                 <<Message("bot", Some(LoanHintText), Null, TRUE, t),
                   Message("bot", Some(EmailRequestText), Null, FALSE, t + 1)>>,
                 Null, Null)

handleFinancialReadiness(state, input, t) ==
    Outcome(<<UpdateState("EMAIL_REQUEST")>>,
            <<Message("bot", Some(LoanHintText), Null, TRUE, t),
              Message("bot", Some(EmailRequestText), Null, FALSE, t + 1)>>,
            Null, Null)

\* mutant: a valid address completes the conversation without being stored
handleEmailRequest_NoStore(state, input) ==
    IF emailRegexTest(input)
    THEN Outcome(<<UpdateState("COMPLETED")>>, <<>>, Null, Null)
    ELSE Outcome(<<>>, <<>>, Null, Some(Response(Some(InvalidEmailText), Null)))

handleEmailRequest(state, input) ==
    IF emailRegexTest(input)
    THEN Outcome(<<SetEmail(Some(input)), UpdateState("COMPLETED")>>, <<>>, Null, Null)
    ELSE Outcome(<<>>, <<>>, Null, Some(Response(Some(InvalidEmailText), Null)))

\* mutant: an input at COMPLETED is answered with an acknowledgment
handleCompleted_Replies(state, input) ==
    Outcome(<<>>, <<>>, Null, Some(Response(Some(FallbackText), Null)))

handleCompleted(state, input) == Outcome(<<>>, <<>>, Null, Null)

handleUserResponse(state, input, t) ==
    CASE state.currentState = "INITIAL" -> handleInitial(state, input)
      [] state.currentState = "CONFIRM_FILTERS" -> handleConfirmFilters(state, input)
      [] state.currentState = "EDIT_LOCATION" -> handleEditLocation(state, input)
      [] state.currentState = "PROPERTY_TYPE" -> handlePropertyType(state, input, t)
      [] state.currentState = "BEDROOMS" -> handleBedrooms(state, input, t)
      [] state.currentState = "PUBLIC_TRANSPORT" -> handlePublicTransport(state, input)
      [] state.currentState = "SCHOOLS" -> handleSchools(state, input)
      [] state.currentState = "TIMELINE" -> handleTimeline(state, input, t)
      [] state.currentState = "FINANCIAL_READINESS" ->
            handleFinancialReadiness(state, input, t)
      [] state.currentState = "EMAIL_REQUEST" -> handleEmailRequest(state, input)
      [] state.currentState = "COMPLETED" -> handleCompleted(state, input)
      [] OTHER -> Outcome(<<>>, <<>>, Null, Null)

(***************************************************************************)
(* Bounds and the inputs the model draws from                              *)
(***************************************************************************)
\* sendMessage calls per session
MaxTurns == 10
\* of these, the turns that dispatch nothing (re-prompts, input after COMPLETED)
MaxRejected == 1

Manchester == <<"M", "a", "n", "c", "h", "e", "s", "t", "e", "r">>
London == <<"L", "o", "n", "d", "o", "n">>
Purple == <<"p", "u", "r", "p", "l", "e">>
Range23 == <<"2", "-", "3">>
Range42 == <<"4", "-", "2">>
\* a location of two characters
Ab == <<"A", "b">>
UserEmail == <<"u", "s", "e", "r", "@", "e", "x", "a", "m", "p", "l", "e", ".", "c", "o", "m">>
NoMail == <<"n", "o", "m", "a", "i", "l">>
\* an address whose top-level domain has one letter
ShortTld == <<"a", "@", "b", ".", "c">>

\* the search the main app hands over (ChatContainer), or none
SeedLondon ==
    [location |-> Some(London), propertyType |-> Some(Residential),
     propertySubtype |-> Some(Flat),
     bedrooms |-> [min |-> Some(2), max |-> Some(4)],
     price |-> [min |-> Some(200000), max |-> Some(500000)]]
\* a search for studio flats anywhere: no bedroom, no location
SeedStudio ==
    [location |-> Null, propertyType |-> Some(Residential),
     propertySubtype |-> Some(Studio),
     bedrooms |-> [min |-> Some(0), max |-> Some(0)],
     price |-> [min |-> Some(200000), max |-> Some(500000)]]
SearchCriteria == {Null, Some(SeedLondon), Some(SeedStudio)}

\* the initialResponse prop
InitialResponses == {Null, Some(YesPlease), Some(NoThanks)}

\* the texts a turn may carry at each step
InputsAt(step) ==
    CASE step = "INITIAL" -> {YesPlease, NoThanks, Purple}
      [] step = "CONFIRM_FILTERS" -> {Confirm, Edit, Purple}
      [] step = "EDIT_LOCATION" -> {Manchester, Ab}
      [] step = "PROPERTY_TYPE" -> {Residential, Land}
      [] step = "BEDROOMS" -> {Range23, Range42, Studio, Purple}
      [] step = "PUBLIC_TRANSPORT" -> {Yes, No, Purple}
      [] step = "SCHOOLS" -> {Yes, No, Purple}
      [] step = "TIMELINE" -> {ASAP, Months13}
      [] step = "FINANCIAL_READINESS" -> {Yes, No, DontShare}
      [] step = "EMAIL_REQUEST" -> {UserEmail, NoMail}
      [] OTHER -> {Yes, UserEmail}

(***************************************************************************)
(* The widget                                                              *)
(***************************************************************************)
VARIABLES
    searchCriteria,        \* prop: Null or Some(criteria)
    initialResponse,       \* prop: Null or Some(text)
    state,                 \* useReducer(conversationReducer, ...)
    messages,              \* useState([])
    isLoading,             \* useState(false)
    lastActiveMessageId,   \* useState(null)
    hasCompletedRef,       \* useRef(false)
    initiateCall,          \* the initiateChat promise: "pending", "resolved", "rejected"
    timer,                 \* the initialResponse timeout: "none", "armed", "fired"
    inFlight,              \* sendMessage calls waiting in simulateTyping, oldest first
    completeCalls,         \* the completeChat calls made, each with its outcome
    now,                   \* Date.now()
    turns,                 \* sendMessage calls so far
    rejected,              \* sendMessage calls so far that dispatch nothing
    inputError,            \* useState(''): the error shown under the input
    fnCall,                \* a call of a pure function of conversationState, on its own
    last                   \* the step taken last and the values it started from

vars == <<searchCriteria, initialResponse, state, messages, isLoading,
          lastActiveMessageId, hasCompletedRef, initiateCall, timer, inFlight,
          completeCalls, now, turns, rejected, inputError, fnCall, last>>

\* no function is being called on its own
NoCall == [fn |-> "none", input |-> Null, result |-> Null]

\* useReducer's initial state
MountState(criteria) ==
    IF ~IsNull(criteria) THEN createInitialStateWithFilters(Val(criteria)) ELSE initialState

Record(op, input, closure) ==
    [op |-> op, input |-> input, closure |-> closure, state |-> state,
     messages |-> messages, calls |-> Len(completeCalls),
     lastActive |-> lastActiveMessageId]

Init ==
    /\ searchCriteria \in SearchCriteria
    /\ initialResponse \in InitialResponses
    /\ state = MountState(searchCriteria)
    /\ messages = <<>>
    /\ isLoading = TRUE          \* initializeChat has called setIsLoading(true)
    /\ lastActiveMessageId = Null
    /\ hasCompletedRef = FALSE
    /\ initiateCall = "pending"
    /\ timer = IF IsNull(initialResponse) THEN "none" ELSE "armed"
    /\ inFlight = <<>>
    /\ completeCalls = <<>>
    /\ now = 0
    /\ turns = 0
    /\ rejected = 0
    /\ inputError = NoError
    /\ fnCall = NoCall
    /\ last = [op |-> "mount", input |-> Null, closure |-> Null, state |-> state,
               messages |-> <<>>, calls |-> 0, lastActive |-> Null]

\* whether the handler dispatches anything for this input
Dispatches(closure, message) ==
    handleUserResponse(closure, message, 0).dispatched # <<>>

\* sendMessage up to `await simulateTyping()`; closure is the `state` of the
\* render whose sendMessage is called
sendMessageStart(message, closure) ==
    /\ lastActiveMessageId' = Null
    /\ messages' = Append(messages, Message("user", Some(message), Null, FALSE, now))
    /\ isLoading' = TRUE
    /\ inFlight' = Append(inFlight, [message |-> message, closure |-> closure])
    /\ now' = now + 1
    /\ turns' = turns + 1
    /\ rejected' = IF Dispatches(closure, message) THEN rejected ELSE rejected + 1
    /\ last' = Record("send", Some(message), Some(closure))
    /\ UNCHANGED <<fnCall, searchCriteria, initialResponse, state, hasCompletedRef,
                   initiateCall, completeCalls>>

\* the timeout of the initialResponse effect: its sendMessage belongs to the
\* first render
TimerFires ==
    /\ timer = "armed"
    /\ timer' = "fired"
    /\ sendMessageStart(Val(initialResponse), MountState(searchCriteria))
    /\ UNCHANGED inputError

\* a turn submitted by an option button or the form: both require !isLoading.
\* Turns are taken one at a time, the popup answer first.
Submit(message) ==
    /\ ~isLoading
    /\ inFlight = <<>>
    /\ timer # "armed"
    /\ turns < MaxTurns
    /\ Dispatches(state, message) \/ rejected < MaxRejected
    /\ message \in InputsAt(state.currentState)
    /\ sendMessageStart(message, state)
    /\ UNCHANGED <<timer, inputError>>

\* mutant: the effect also fires when the email is asked for
handleCompletedState_AtEmailRequest(st, msgs, ref, calls) ==
    IF st.currentState \in {"EMAIL_REQUEST", "COMPLETED"} /\ ~ref
    THEN [ref |-> TRUE,
          calls |-> Append(calls, [finalPreferences |-> formatFinalPreferences(st),
                                   userEmail |-> st.userEmail,
                                   conversationSummary |-> formatConversationSummary(msgs),
                                   outcome |-> "pending"])]
    ELSE [ref |-> ref, calls |-> calls]

\* mutant: the effect does not test currentState
handleCompletedState_NoStateTest(st, msgs, ref, calls) ==
    IF ~ref
    THEN [ref |-> TRUE,
          calls |-> Append(calls, [finalPreferences |-> formatFinalPreferences(st),
                                   userEmail |-> st.userEmail,
                                   conversationSummary |-> formatConversationSummary(msgs),
                                   outcome |-> "pending"])]
    ELSE [ref |-> ref, calls |-> calls]

\* the COMPLETED effect's handleCompletedState, run in a render with the given
\* state and messages: the latch and the completeChat calls it leaves
handleCompletedState(st, msgs, ref, calls) ==
    IF st.currentState = "COMPLETED" /\ ~ref
    THEN [ref |-> TRUE,
          calls |-> Append(calls, [finalPreferences |-> formatFinalPreferences(st),
                                   userEmail |-> st.userEmail,
                                   conversationSummary |-> formatConversationSummary(msgs),
                                   outcome |-> "pending"])]
    ELSE [ref |-> ref, calls |-> calls]

\* sendMessage after the typing delay: handleUserResponse, the bot response,
\* finally setIsLoading(false); then the effects of the render that follows.
\* The COMPLETED effect runs when currentState has changed; its render holds
\* the bot response or not, depending on whether React batches the updates.
HandleResponse ==
    /\ inFlight # <<>>
    /\ LET call == Head(inFlight)
           t == now
           out == handleUserResponse(call.closure, call.message, t)
           next == Dispatch(state, out.dispatched)
           own == messages \o out.appended
           reply == IF IsNull(out.response) THEN <<>>
                    ELSE <<Message("bot", Val(out.response).text,
                                   Val(out.response).options, FALSE, t + 1)>>
           all == own \o reply
       IN  /\ state' = next
           /\ messages' = all
           /\ lastActiveMessageId' =
                 IF ~IsNull(out.response) /\ ~IsNull(Val(out.response).options)
                 THEN Some(t + 1)
                 ELSE IF ~IsNull(out.lastActive) THEN out.lastActive
                 ELSE lastActiveMessageId
           /\ \E rendered \in {own, all} :
                 LET done == IF next.currentState # state.currentState
                             THEN handleCompletedState(next, rendered, hasCompletedRef,
                                                       completeCalls)
                             ELSE [ref |-> hasCompletedRef, calls |-> completeCalls]
                 IN  /\ hasCompletedRef' = done.ref
                     /\ completeCalls' = done.calls
           /\ inputError' = IF next.currentState # state.currentState
                            THEN NoError ELSE inputError
           /\ last' = Record("handle", Some(call.message), Some(call.closure))
    /\ inFlight' = Tail(inFlight)
    /\ isLoading' = FALSE
    /\ now' = now + 2
    /\ UNCHANGED <<fnCall, searchCriteria, initialResponse, initiateCall, timer, turns, rejected>>

\* initializeChat after `await initiateChat(...)` resolves
InitiateChatResolves ==
    /\ initiateCall = "pending"
    /\ initiateCall' = "resolved"
    /\ state' = conversationReducer(state,
                    UpdateFilters(Spread(IF IsNull(searchCriteria) THEN <<>>
                                         ELSE Val(searchCriteria),
                                         [existingFilters |-> TRUE])))
    /\ messages' = <<Message("bot", Some(InitialPopupText), Some(<<YesPlease, NoThanks>>),
                             FALSE, now)>>
    /\ isLoading' = FALSE
    /\ now' = now + 1
    /\ last' = Record("initiated", Null, Null)
    /\ UNCHANGED <<fnCall, searchCriteria, initialResponse, lastActiveMessageId, hasCompletedRef,
                   timer, inFlight, completeCalls, turns, rejected, inputError>>

\* initializeChat when initiateChat throws: catch, finally
InitiateChatRejects ==
    /\ initiateCall = "pending"
    /\ initiateCall' = "rejected"
    /\ isLoading' = FALSE
    /\ last' = Record("initiateFailed", Null, Null)
    /\ UNCHANGED <<fnCall, searchCriteria, initialResponse, state, messages, lastActiveMessageId,
                   hasCompletedRef, timer, inFlight, completeCalls, now, turns, rejected,
                   inputError>>

\* mutant: a failed completeChat is sent again
CompleteChatSettles_Retries(i, outcome, text) ==
    /\ i \in 1..Len(completeCalls)
    /\ completeCalls[i].outcome = "pending"
    /\ completeCalls' =
          IF outcome = "rejected"
          THEN Append([completeCalls EXCEPT ![i].outcome = outcome], completeCalls[i])
          ELSE [completeCalls EXCEPT ![i].outcome = outcome]
    /\ messages' = Append(messages, Message("bot", Some(text), Null, FALSE, now))
    /\ now' = now + 1
    /\ last' = Record(outcome, Null, Null)
    /\ UNCHANGED <<fnCall, searchCriteria, initialResponse, state, isLoading, lastActiveMessageId,
                   hasCompletedRef, initiateCall, timer, inFlight, turns, rejected,
                   inputError>>

\* handleCompletedState after `await completeChat(...)`: the acknowledgment
CompleteChatSettles(i, outcome, text) ==
    /\ i \in 1..Len(completeCalls)
    /\ completeCalls[i].outcome = "pending"
    /\ completeCalls' = [completeCalls EXCEPT ![i].outcome = outcome]
    /\ messages' = Append(messages, Message("bot", Some(text), Null, FALSE, now))
    /\ now' = now + 1
    /\ last' = Record(outcome, Null, Null)
    /\ UNCHANGED <<fnCall, searchCriteria, initialResponse, state, isLoading, lastActiveMessageId,
                   hasCompletedRef, initiateCall, timer, inFlight, turns, rejected,
                   inputError>>

CompleteChatResolves == \E i \in 1..Len(completeCalls) :
    CompleteChatSettles(i, "resolved", CompletedText)

CompleteChatRejects == \E i \in 1..Len(completeCalls) :
    CompleteChatSettles(i, "rejected", FallbackText)

SubmitTurn == \E message \in InputsAt(state.currentState) : Submit(message)

Next ==
    \/ TimerFires
    \/ SubmitTurn
    \/ HandleResponse
    \/ InitiateChatResolves
    \/ InitiateChatRejects
    \/ CompleteChatResolves
    \/ CompleteChatRejects

Spec == Init /\ [][Next]_vars

(***************************************************************************)
(* The widget driven through its rendered controls                         *)
(***************************************************************************)
\* mutant: the text field is enabled at every step
isInputEnabled_Always(st) == st.currentState \in CONVERSATION_STATES

isInputEnabled(st) ==
    \/ st.currentState = "BEDROOMS"
    \/ st.currentState = "EMAIL_REQUEST"
    \/ st.currentState = "EDIT_LOCATION"

\* the options rendered as buttons: those of the message whose id is
\* lastActiveMessageId
RenderedOptions ==
    UNION {{Val(messages[i].options)[k] : k \in 1..Len(Val(messages[i].options))} :
              i \in {j \in 1..Len(messages) :
                        /\ ~IsNull(messages[j].options)
                        /\ Some(messages[j].id) = lastActiveMessageId}}

\* the buttons the model's user presses at each step, when they are rendered
ClickedAt(step) ==
    IF step = "EMAIL_REQUEST" THEN InputsAt(step) \cup {Months13} ELSE InputsAt(step)

\* onClick of an option button (disabled while isLoading); of the buttons
\* rendered, the ones the model's user presses
ClickOption ==
    /\ ~isLoading
    /\ turns < MaxTurns
    /\ \E option \in RenderedOptions \cap ClickedAt(state.currentState) :
          /\ Dispatches(state, option) \/ rejected < MaxRejected
          /\ sendMessageStart(option, state)
    /\ UNCHANGED <<timer, inputError>>

\* onSubmit of the input form with the text typed
FormSubmit(userInput) ==
    /\ trim(userInput) # <<>>
    /\ ~isLoading
    /\ isInputEnabled(state)
    /\ IF state.currentState = "EMAIL_REQUEST" /\ ~validateInput(userInput, "email")
       THEN /\ inputError' = FormErrorText
            /\ last' = Record("formRejected", Some(userInput), Some(state))
            /\ UNCHANGED <<fnCall, searchCriteria, initialResponse, state, messages, isLoading,
                           lastActiveMessageId, hasCompletedRef, initiateCall, timer,
                           inFlight, completeCalls, now, turns, rejected>>
       ELSE /\ turns < MaxTurns
            /\ Dispatches(state, userInput) \/ rejected < MaxRejected
            /\ sendMessageStart(userInput, state)
            /\ inputError' = NoError
            /\ UNCHANGED timer

\* the texts the model's user types at each step
TypedAt(step) ==
    IF step = "EMAIL_REQUEST" THEN {UserEmail, NoMail, ShortTld} ELSE InputsAt(step)

TypeAndSubmit == \E userInput \in TypedAt(state.currentState) : FormSubmit(userInput)

NextUI ==
    \/ TimerFires
    \/ ClickOption
    \/ TypeAndSubmit
    \/ HandleResponse
    \/ InitiateChatResolves
    \/ InitiateChatRejects
    \/ CompleteChatResolves
    \/ CompleteChatRejects

SpecUI == Init /\ [][NextUI]_vars

(***************************************************************************)
(* The pure functions of conversationState, called on their own            *)
(***************************************************************************)
\* the largest number written in a bedroom answer
MaxBedrooms == 11
Numbers == 0..MaxBedrooms

\* the bedroom answers: the reference forms for every number, the same with
\* blanks around a bare number, and phrases
ParserForms ==
    {ToStr(n) : n \in Numbers}
    \cup {ToStr(n) \o <<"-">> \o ToStr(m) : n \in Numbers, m \in Numbers}
    \cup {ToStr(n) \o <<" ", "t", "o", " ">> \o ToStr(m) : n \in Numbers, m \in Numbers}
    \cup {<<"m", "i", "n", " ">> \o ToStr(n) : n \in Numbers}
    \cup {<<"m", "a", "x", " ">> \o ToStr(n) : n \in Numbers}
ParserPadded ==
    {<<" ">> \o ToStr(n) : n \in Numbers} \cup {ToStr(n) \o <<" ">> : n \in Numbers}
ParserPhrases ==
    {<<"s", "t", "u", "d", "i", "o">>,
     <<"S", "t", "u", "d", "i", "o">>,
     <<"a", " ", "s", "t", "u", "d", "i", "o", " ", "f", "l", "a", "t">>,
     <<"s", "t", "u", "d", "i", "o", " ", "2", "-", "3">>,
     <<"n", "o", " ", "m", "i", "n", " ", "s", "t", "u", "d", "i", "o">>,
     <<"p", "u", "r", "p", "l", "e">>,
     <<"n", "o", " ", "m", "i", "n">>,
     <<"a", "n", "y", " ", "m", "i", "n", " ", "2">>,
     <<"n", "o", " ", "m", "i", "n", " ", "2">>,
     <<"n", "o", " ", "m", "i", "n", " ", "2", "-", "3">>,
     <<"n", "o", " ", "m", "a", "x", " ", "3">>,
     <<"a", "n", "y", " ", "m", "a", "x", " ", "3">>,
     <<"n", "o", " ", "m", "i", "n", " ", "m", "a", "x", " ", "3">>,
     <<"a", "n", "y", " ", "m", "i", "n", " ", "m", "a", "x", " ", "3">>,
     <<"m", "i", "n", "i", "m", "u", "m", " ", "2">>,
     <<"m", "a", "x", "i", "m", "u", "m", "1", "2">>,
     <<"m", "i", "n", " ", "2", " ", "m", "a", "x", " ", "4">>,
     <<"2", " ", "b", "e", "d", "r", "o", "o", "m", "s">>,
     <<"m", "i", "n", "2">>}
ParserInputs == ParserForms \cup ParserPadded \cup ParserPhrases

\* the bounds formatBedrooms is called with
RangeInputs ==
    [min : {Null} \cup {Some(n) : n \in Numbers}, max : {Null} \cup {Some(n) : n \in Numbers}]

\* the filters generateConfirmationMessage is called with
FilterInputs ==
    [location : {Null, Some(London)},
     propertyType : {Null, Some(Residential), Some(Land)},
     propertySubtype : {Null, Some(Studio), Some(Flat)},
     bedrooms : [min : {Null, Some(0), Some(2)}, max : {Null, Some(2), Some(3)}],
     price : [min : {Null, Some(200000)}, max : {Null, Some(400000)}],
     existingFilters : BOOLEAN]

\* a call that has not returned yet
NewCall(fn, input) == [fn |-> fn, input |-> input, result |-> Null]

widgetVars == <<searchCriteria, initialResponse, state, messages, isLoading,
                lastActiveMessageId, hasCompletedRef, initiateCall, timer, inFlight,
                completeCalls, now, turns, rejected, inputError, last>>

\* the module is loaded, no widget is driven
InitFn ==
    /\ \/ \E i \in ParserInputs : fnCall = NewCall("extractBedroomNumbers", i)
       \/ \E i \in RangeInputs : fnCall = NewCall("formatBedrooms", i)
       \/ \E i \in FilterInputs : fnCall = NewCall("generateConfirmationMessage", i)
    /\ searchCriteria = Null
    /\ initialResponse = Null
    /\ state = initialState
    /\ messages = <<>>
    /\ isLoading = FALSE
    /\ lastActiveMessageId = Null
    /\ hasCompletedRef = FALSE
    /\ initiateCall = "pending"
    /\ timer = "none"
    /\ inFlight = <<>>
    /\ completeCalls = <<>>
    /\ now = 0
    /\ turns = 0
    /\ rejected = 0
    /\ inputError = NoError
    /\ last = [op |-> "mount", input |-> Null, closure |-> Null, state |-> initialState,
               messages |-> <<>>, calls |-> 0, lastActive |-> Null]

Pending(fn) == fnCall.fn = fn /\ IsNull(fnCall.result)
Returned(fn) == fnCall.fn = fn /\ ~IsNull(fnCall.result)

CallExtractBedroomNumbers ==
    /\ Pending("extractBedroomNumbers")
    /\ fnCall' = [fnCall EXCEPT !.result = Some(extractBedroomNumbers(fnCall.input))]
    /\ UNCHANGED widgetVars

CallFormatBedrooms ==
    /\ Pending("formatBedrooms")
    /\ fnCall' = [fnCall EXCEPT
                     !.result = Some(formatBedrooms(fnCall.input.min, fnCall.input.max))]
    /\ UNCHANGED widgetVars

CallGenerateConfirmationMessage ==
    /\ Pending("generateConfirmationMessage")
    /\ fnCall' = [fnCall EXCEPT !.result = Some(generateConfirmationMessage(fnCall.input))]
    /\ UNCHANGED widgetVars

NextFn ==
    \/ CallExtractBedroomNumbers
    \/ CallFormatBedrooms
    \/ CallGenerateConfirmationMessage

SpecFn == InitFn /\ [][NextFn]_vars

(***************************************************************************)
(* Properties                                                              *)
(***************************************************************************)
Step == state.currentState
Handled == last.op = "handle"
HandledAt(step) == Handled /\ Val(last.closure).currentState = step
Finalized == Len(completeCalls) > last.calls
Payload == completeCalls[Len(completeCalls)]

\* the texts of the user turns of the transcript, in order
UserTexts ==
    LET users == SelectSeq(messages, LAMBDA m : m.sender = "user")
    IN  [i \in 1..Len(users) |-> Val(users[i].text)]

\* the step appended exactly these bot messages (ids aside)
BotAppended(texts) ==
    /\ Len(messages) = Len(last.messages) + Len(texts)
    /\ SubSeq(messages, 1, Len(last.messages)) = last.messages
    /\ \A i \in 1..Len(texts) :
          /\ messages[Len(last.messages) + i].sender = "bot"
          /\ messages[Len(last.messages) + i].text = Some(texts[i])

\* C1: the finalize event (a completeChat call) has been emitted exactly once
\* when the step is COMPLETED, whichever way COMPLETED was reached, and not at
\* all before; never more than once.
C1_FinalizeExactlyOnce ==
    /\ Len(completeCalls) <= 1
    /\ Len(completeCalls) = IF Step = "COMPLETED" THEN 1 ELSE 0
    /\ hasCompletedRef = (Len(completeCalls) = 1)

\* a further input has been processed after the full flow completed
C1_Witness ==
    /\ Handled
    /\ last.state.currentState = "COMPLETED"
    /\ ~IsNull(state.userEmail)
    /\ Len(completeCalls) = 1

\* C2: COMPLETED is absorbing: an input submitted at COMPLETED leaves the step
\* at COMPLETED, appends nothing but the user's own turn, and emits no finalize.
C2_CompletedAbsorbing ==
    /\ (last.op = "send" /\ last.state.currentState = "COMPLETED") =>
          /\ state = last.state
          /\ Len(messages) = Len(last.messages) + 1
          /\ SubSeq(messages, 1, Len(last.messages)) = last.messages
          /\ messages[Len(messages)].sender = "user"
          /\ Len(completeCalls) = last.calls
    /\ HandledAt("COMPLETED") =>
          /\ state = last.state
          /\ messages = last.messages
          /\ Len(completeCalls) = last.calls

\* an input has been processed at COMPLETED after an early decline
C2_Witness == HandledAt("COMPLETED") /\ IsNull(state.userEmail)

\* C3: the step is always one of the eleven declared states and starts at INITIAL
C3_StepDeclared ==
    /\ Step \in CONVERSATION_STATES
    /\ Cardinality(CONVERSATION_STATES) = 11
    /\ last.op = "mount" => Step = "INITIAL"

\* a transition has just moved the step
C3_Witness == Handled /\ Step # last.state.currentState /\ Step = "FINANCIAL_READINESS"

\* C4: the end-to-end scenario, answered after the popup's "Yes, please!" in a
\* session without seed filters, visits the listed steps and yields exactly one
\* finalize payload with the listed fields.
Scenario ==
    <<YesPlease, Manchester, Residential, Range23, Yes, No, Months13, UserEmail>>
ScenarioSteps ==
    <<"EDIT_LOCATION", "PROPERTY_TYPE", "BEDROOMS", "PUBLIC_TRANSPORT", "SCHOOLS",
      "TIMELINE", "EMAIL_REQUEST", "COMPLETED">>
ScenarioPayload(call) ==
    LET p == call.finalPreferences
    IN  /\ "location" \in DOMAIN p /\ p.location = Manchester
        /\ "bedrooms" \in DOMAIN p /\ p.bedrooms = [min |-> Some(2), max |-> Some(3)]
        /\ "publicTransport" \in DOMAIN p /\ p.publicTransport = TRUE
        /\ "schools" \in DOMAIN p /\ p.schools = FALSE
        /\ "timeline" \in DOMAIN p /\ p.timeline = Months13
        /\ call.userEmail = Some(UserEmail)
C4_EndToEnd ==
    \A k \in 1..Len(Scenario) :
        (/\ IsNull(searchCriteria)
         /\ initialResponse = Some(YesPlease)
         /\ inFlight = <<>>
         /\ UserTexts = SubSeq(Scenario, 1, k))
        => /\ Step = ScenarioSteps[k]
           /\ k = Len(Scenario) =>
                 /\ Len(completeCalls) = 1
                 /\ ScenarioPayload(completeCalls[1])

\* C5: the finalize payload holds a field exactly when the state holds it at
\* the moment COMPLETED is entered, with the stored value.
PayloadMatchesState(p, st) ==
    /\ \A k \in {"location", "propertyType", "propertySubtype"} :
          IF IsNull(st.filters[k]) THEN k \notin DOMAIN p
          ELSE k \in DOMAIN p /\ p[k] = Val(st.filters[k])
    /\ \A k \in {"bedrooms", "price"} :
          IF IsNull(st.filters[k].min) /\ IsNull(st.filters[k].max) THEN k \notin DOMAIN p
          ELSE k \in DOMAIN p /\ p[k] = st.filters[k]
    /\ \A k \in {"publicTransport", "schools", "hasPreApprovedLoan"} :
          IF IsNull(st.preferences[k]) THEN k \notin DOMAIN p
          ELSE k \in DOMAIN p /\ p[k] = Val(st.preferences[k])
    /\ IF IsNull(st.preferences.timeline) THEN "timeline" \notin DOMAIN p
       ELSE "timeline" \in DOMAIN p /\ p.timeline = Val(st.preferences.timeline)
C5_PayloadSparse ==
    (Handled /\ Finalized) => PayloadMatchesState(Payload.finalPreferences, state)

C7_CompletedFrozen == last.state.currentState = "COMPLETED" => state = last.state

\* C8: existingFilters is true exactly in the sessions started with seed filters;
\* a seeded session starts with the seeded values stored.
C8_PrefilledIffSeeded ==
    /\ state.filters.existingFilters = ~IsNull(searchCriteria)
    /\ (Handled /\ turns = 1) =>
          last.state.filters.existingFilters = ~IsNull(searchCriteria)
    /\ (last.op = "mount" /\ ~IsNull(searchCriteria)) =>
          \A k \in DOMAIN Val(searchCriteria) : state.filters[k] = Val(searchCriteria)[k]

\* C9: at INITIAL, "Yes, please!" moves to CONFIRM_FILTERS with the formatter's
\* confirmation prompt and the options Confirm / Edit when existingFilters is
\* true, and otherwise to EDIT_LOCATION with the ask-location prompt without
\* options; filters and preferences are unchanged.
C9_YesPlease ==
    (HandledAt("INITIAL") /\ last.input = Some(YesPlease))
    => /\ state.filters = last.state.filters
       /\ state.preferences = last.state.preferences
       /\ Len(messages) = Len(last.messages) + 1
       /\ IF last.state.filters.existingFilters
          THEN /\ Step = "CONFIRM_FILTERS"
               /\ messages[Len(messages)].text =
                     generateConfirmationMessage(last.state.filters)
               /\ messages[Len(messages)].options = Some(<<Confirm, Edit>>)
          ELSE /\ Step = "EDIT_LOCATION"
               /\ BotAppended(<<AskLocationText>>)
               /\ messages[Len(messages)].options = Null

C10_Witness ==
    /\ HandledAt("INITIAL")
    /\ last.input = Some(Purple)
    /\ ~IsNull(searchCriteria)
    /\ Finalized

\* the message the step appended last
LastMessage == messages[Len(messages)]

C12_LocationValidated ==
    HandledAt("EDIT_LOCATION")
    => IF Len(trim(Val(last.input))) < 3
       THEN /\ state = last.state
            /\ BotAppended(<<AskLocationText>>)
       ELSE /\ state.filters.location = last.input
            /\ Step = "PROPERTY_TYPE"
            /\ BotAppended(<<PropertyTypeText>>)
            /\ LastMessage.options = Some(<<Land, Residential, Commercial, Leisure>>)

\* C13: at BEDROOMS an answer the parser cannot read (min and max both null, no
\* "studio" in the text) leaves the state unchanged and emits the error message
\* followed by the format hint; every other answer stores the parsed pair,
\* emits the "Got it! Looking for ..." confirmation followed by the
\* public-transport Yes / No prompt, and moves to PUBLIC_TRANSPORT.
BedroomsHandled(input, parsed) ==
    IF /\ IsNull(parsed.min)
       /\ IsNull(parsed.max)
       /\ ~includes(toLowerCase(input), <<"s", "t", "u", "d", "i", "o">>)
    THEN /\ state = last.state
         /\ BotAppended(<<BedroomsErrorText, BedroomsHintText>>)
    ELSE /\ state = [last.state EXCEPT !.filters.bedrooms = parsed,
                                       !.currentState = "PUBLIC_TRANSPORT"]
         /\ Len(messages) = Len(last.messages) + 2
         /\ SubSeq(messages, 1, Len(last.messages)) = last.messages
         /\ messages[Len(messages) - 1].sender = "bot"
         /\ Val(messages[Len(messages) - 1].text)[1] = "Got it! Looking for "
         /\ LastMessage.sender = "bot"
         /\ LastMessage.text = Some(PublicTransportText)
         /\ LastMessage.options = Some(<<Yes, No>>)
C14_BedroomsOrdered ==
    /\ (~IsNull(state.filters.bedrooms.min) /\ ~IsNull(state.filters.bedrooms.max))
          => Val(state.filters.bedrooms.min) <= Val(state.filters.bedrooms.max)
    /\ (HandledAt("BEDROOMS")
        /\ includes(toLowerCase(Val(last.input)), <<"s", "t", "u", "d", "i", "o">>))
          => state.filters.bedrooms = [min |-> Some(0), max |-> Some(0)]

\* C15: at FINANCIAL_READINESS the answer "Yes" stores hasPreApprovedLoan = true,
\* emits the loan hint followed by the register prompt whose only option is
\* "Register", moves to COMPLETED and finalizes with no email collected.
C15_LoanYesCompletes ==
    (HandledAt("FINANCIAL_READINESS") /\ last.input = Some(Yes))
    => /\ state.preferences.hasPreApprovedLoan = Some(TRUE)
       /\ Step = "COMPLETED"
       /\ Len(messages) = Len(last.messages) + 2
       /\ messages[Len(messages) - 1].text = Some(LoanHintText)
       /\ LastMessage.options = Some(<< <<"R", "e", "g", "i", "s", "t", "e", "r">> >>)
       /\ Finalized
       /\ IsNull(state.userEmail)
       /\ IsNull(Payload.userEmail)

\* C16: at FINANCIAL_READINESS the answer "No" stores hasPreApprovedLoan = false
\* and the decline-to-share answer leaves it unset; both emit the loan hint and
\* the email request and move to EMAIL_REQUEST; the finalize payload carries
\* the stored answer.
C16_LoanTriState ==
    /\ (HandledAt("FINANCIAL_READINESS") /\ last.input \in {Some(No), Some(DontShare)})
          => /\ Step = "EMAIL_REQUEST"
             /\ BotAppended(<<LoanHintText, EmailRequestText>>)
             /\ state.preferences.hasPreApprovedLoan =
                   IF last.input = Some(No) THEN Some(FALSE) ELSE Null
    /\ (Handled /\ Finalized /\ ~IsNull(state.preferences.hasPreApprovedLoan))
          => /\ "hasPreApprovedLoan" \in DOMAIN Payload.finalPreferences
             /\ Payload.finalPreferences.hasPreApprovedLoan =
                   Val(state.preferences.hasPreApprovedLoan)

\* C18: the transcript is append-only: the transcript a step starts from is a
\* prefix of the transcript it leaves, whichever step it is.
C18_AppendOnly ==
    /\ Len(last.messages) <= Len(messages)
    /\ SubSeq(messages, 1, Len(last.messages)) = last.messages

\* the acknowledgments in the transcript
Acknowledgments ==
    {i \in 1..Len(messages) : messages[i].text \in {Some(CompletedText), Some(FallbackText)}}

\* C20: when the completeChat call fails the step stays COMPLETED, the state is
\* unchanged, exactly one fallback acknowledgment is appended, the transcript
\* never holds two acknowledgments, and no further completeChat call is made.
C20_FinalizeFailure ==
    /\ Cardinality(Acknowledgments) <= 1
    /\ last.op = "rejected"
          => /\ Step = "COMPLETED"
             /\ state = last.state
             /\ BotAppended(<<FallbackText>>)
             /\ Len(completeCalls) = last.calls
             /\ \A i \in 1..Len(completeCalls) : completeCalls[i].outcome = "rejected"

\* the finalize of a full flow has failed
C20_Witness ==
    /\ last.op = "rejected"
    /\ ~IsNull(state.userEmail)
    /\ Cardinality(Acknowledgments) = 1

C19_OneInFlight == Len(inFlight) <= 1

\* the words the bedroom parser looks for
StudioWord == <<"s", "t", "u", "d", "i", "o">>
NoMinWords == {<<"n", "o", " ", "m", "i", "n">>, <<"a", "n", "y", " ", "m", "i", "n">>}
NoMaxWords == {<<"n", "o", " ", "m", "a", "x">>, <<"a", "n", "y", " ", "m", "a", "x">>}
Pair(min, max) == [min |-> min, max |-> max]

\* C22: the bedroom parser returns {N,N} for an input that, trimmed, is the
\* digits of N; {N,M} for "N-M" and "N to M"; {N,null} for "min N"; {null,N}
\* for "max N"; {0,0} for a text containing "studio"; {null,null} for a text
\* that matches no rule; it always returns a pair with the keys min and max.
ParserReference(input, r) ==
    /\ DOMAIN r = {"min", "max"}
    /\ \A n \in Numbers :
          /\ trim(input) = ToStr(n) => r = Pair(Some(n), Some(n))
          /\ input = <<"m", "i", "n", " ">> \o ToStr(n) => r = Pair(Some(n), Null)
          /\ input = <<"m", "a", "x", " ">> \o ToStr(n) => r = Pair(Null, Some(n))
          /\ \A m \in Numbers :
                input \in {ToStr(n) \o <<"-">> \o ToStr(m),
                           ToStr(n) \o <<" ", "t", "o", " ">> \o ToStr(m)}
                   => r = Pair(Some(n), Some(m))
    /\ includes(toLowerCase(input), StudioWord) => r = Pair(Some(0), Some(0))
    /\ input = Purple => r = Pair(Null, Null)
C22_ParserReference ==
    Returned("extractBedroomNumbers") => ParserReference(fnCall.input, Val(fnCall.result))

\* C23: a text containing "no min" or "any min" yields min = null, and a text
\* containing "no max" or "any max" yields max = null, whatever else matches
\* (a text containing "studio" aside, which is {0,0} before all other rules).
ParserOpenEnded(text, r) ==
    /\ (\E w \in NoMinWords : includes(text, w)) => IsNull(r.min)
    /\ (\E w \in NoMaxWords : includes(text, w)) => IsNull(r.max)
C23_NoMinForcesNull ==
    (Returned("extractBedroomNumbers")
     /\ ~includes(toLowerCase(fnCall.input), StudioWord))
    => ParserOpenEnded(toLowerCase(fnCall.input), Val(fnCall.result))

\* C24: formatBedrooms returns "N" for equal bounds, "N-M" for two unequal
\* bounds, "N+" for a minimum alone, "up to M" for a maximum alone and null for
\* no bound, 0 being a bound like any other.
BedroomRangeText(min, max) ==
    IF IsNull(min) /\ IsNull(max) THEN Null
    ELSE IF IsNull(max) THEN Some(ToStr(Val(min)) \o <<"+">>)
    ELSE IF IsNull(min) THEN Some(<<"up to ">> \o ToStr(Val(max)))
    ELSE IF min = max THEN Some(ToStr(Val(min)))
    ELSE Some(ToStr(Val(min)) \o <<"-">> \o ToStr(Val(max)))
C24_FormatBedroomRange ==
    Returned("formatBedrooms")
    => Val(fnCall.result) = BedroomRangeText(fnCall.input.min, fnCall.input.max)

\* C25: generateConfirmationMessage returns null exactly when location,
\* propertyType, propertySubtype and the bounds of bedrooms and price are all
\* unset, the filters carrying the existingFilters flag as every state does.
AllUnset(filters) ==
    /\ IsNull(filters.location)
    /\ IsNull(filters.propertyType)
    /\ IsNull(filters.propertySubtype)
    /\ IsNull(filters.bedrooms.min) /\ IsNull(filters.bedrooms.max)
    /\ IsNull(filters.price.min) /\ IsNull(filters.price.max)
C25_ConfirmationNullIffUnset ==
    Returned("generateConfirmationMessage")
    => (IsNull(Val(fnCall.result)) <=> AllUnset(fnCall.input))

\* C26: for propertyType "Residential", no subtype, bedrooms a < b, a location
\* and both price bounds the message holds "a-b bedroom", "residential
\* properties", "in L" and "between <p> and <q>" in that order; a bedroom
\* phrase appears only for a residential property that is not a studio.
InOrder(text, a, b, c, d) ==
    \E i, j, k, l \in 1..Len(text) :
        /\ i + Len(a) <= j /\ j + Len(b) <= k /\ k + Len(c) <= l
        /\ StartsAt(text, a, i) /\ StartsAt(text, b, j)
        /\ StartsAt(text, c, k) /\ StartsAt(text, d, l)
ConfirmationPhrases(f, text) ==
    InOrder(text,
            ToStr(Val(f.bedrooms.min)) \o <<"-">> \o ToStr(Val(f.bedrooms.max))
               \o <<" bedroom">>,
            <<"r", "e", "s", "i", "d", "e", "n", "t", "i", "a", "l", " properties">>,
            <<"in ">> \o Val(f.location),
            <<"between ", "£">> \o toLocaleString(Val(f.price.min)) \o <<" and ", "£">>
               \o toLocaleString(Val(f.price.max)))
C26_ConfirmationWording ==
    Returned("generateConfirmationMessage")
    => /\ (/\ fnCall.input.propertyType = Some(Residential)
           /\ IsNull(fnCall.input.propertySubtype)
           /\ ~IsNull(fnCall.input.bedrooms.min) /\ ~IsNull(fnCall.input.bedrooms.max)
           /\ Val(fnCall.input.bedrooms.min) < Val(fnCall.input.bedrooms.max)
           /\ ~IsNull(fnCall.input.location)
           /\ ~IsNull(fnCall.input.price.min) /\ ~IsNull(fnCall.input.price.max))
          => ConfirmationPhrases(fnCall.input, Val(Val(fnCall.result)))
       /\ (/\ ~IsNull(Val(fnCall.result))
           /\ \E i \in 1..Len(Val(Val(fnCall.result))) :
                 Val(Val(fnCall.result))[i] = " bedroom")
          => /\ \/ fnCall.input.propertyType = Some(Residential)
                \/ \E i \in 1..Len(RESIDENTIAL_SUBTYPES) :
                      fnCall.input.propertySubtype = Some(RESIDENTIAL_SUBTYPES[i])
             /\ fnCall.input.propertySubtype # Some(Studio)

\* a bot message with this text is in the transcript
Prompted(text) ==
    \E i \in 1..Len(messages) : messages[i].sender = "bot" /\ messages[i].text = Some(text)

\* C21: no completeChat call exists before the step is COMPLETED, so no turn
\* sent or handled at INITIAL .. EMAIL_REQUEST makes a transport call unless
\* it enters COMPLETED; the initiateChat call of the mount is the only other one.
C21_NoMidConversationCall ==
    /\ Step # "COMPLETED" => completeCalls = <<>>
    /\ (last.op \in {"send", "handle"} /\ Finalized)
       => /\ last.op = "handle"
          /\ Step = "COMPLETED"
          /\ last.state.currentState # "COMPLETED"
          /\ Len(completeCalls) = last.calls + 1
C21_Witness ==
    /\ HandledAt("TIMELINE") /\ Step = "EMAIL_REQUEST"
    /\ initiateCall = "resolved" /\ completeCalls = <<>>

C28_YesNoCoercion ==
    /\ HandledAt("PUBLIC_TRANSPORT")
       => /\ state.preferences.publicTransport = Some(last.input = Some(Yes))
          /\ Step = "SCHOOLS"
          /\ BotAppended(<<SchoolsText>>)
          /\ LastMessage.options = Some(<<Yes, No>>)
    /\ HandledAt("SCHOOLS")
       => /\ state.preferences.schools = Some(last.input = Some(Yes))
          /\ Step = "TIMELINE"
          /\ BotAppended(<<TimelineText>>)
          /\ LastMessage.options = Some(TIMELINE_OPTIONS)
          /\ Len(TIMELINE_OPTIONS) = 4
C28_Witness ==
    /\ HandledAt("SCHOOLS") /\ last.input = Some(Purple)
    /\ state.preferences.publicTransport = Some(FALSE)
    /\ state.preferences.schools = Some(FALSE)
    /\ Purple \in {UserTexts[i] : i \in 1..Len(UserTexts) - 1}

Confirmed == \E i \in 1..Len(UserTexts) : UserTexts[i] = Confirm

\* the payload holds the five seeded filters with the seeded values
PayloadCarries(p, seed) ==
    /\ \A k \in {"location", "propertyType", "propertySubtype"} :
          IF IsNull(seed[k]) THEN k \notin DOMAIN p
          ELSE k \in DOMAIN p /\ Some(p[k]) = seed[k]
    /\ \A k \in {"bedrooms", "price"} : k \in DOMAIN p /\ p[k] = seed[k]

\* C30: at CONFIRM_FILTERS "Confirm" moves to PUBLIC_TRANSPORT with its prompt,
\* without EDIT_LOCATION, PROPERTY_TYPE or BEDROOMS being visited, and "Edit"
\* moves to EDIT_LOCATION with the ask-location prompt; neither changes a
\* filter, and after "Confirm" the finalize payload carries the seeded filters.
C30_ConfirmOrEdit ==
    /\ (HandledAt("CONFIRM_FILTERS") /\ last.input = Some(Confirm))
       => /\ Step = "PUBLIC_TRANSPORT"
          /\ BotAppended(<<PublicTransportText>>)
          /\ LastMessage.options = Some(<<Yes, No>>)
          /\ state.filters = last.state.filters
    /\ (HandledAt("CONFIRM_FILTERS") /\ last.input = Some(Edit))
       => /\ Step = "EDIT_LOCATION"
          /\ BotAppended(<<AskLocationText>>)
          /\ state.filters = last.state.filters
    /\ Confirmed
       => /\ Step \notin {"EDIT_LOCATION", "PROPERTY_TYPE", "BEDROOMS"}
          /\ ~Prompted(AskLocationText)
          /\ ~Prompted(PropertyTypeText)
          /\ ~Prompted(BedroomsQuestionText)
    /\ (Handled /\ Finalized /\ Confirmed /\ ~IsNull(searchCriteria))
       => PayloadCarries(Payload.finalPreferences, Val(searchCriteria))

\* the user turn that directly follows the bot prompt with this text
Answered(text, answer) ==
    \E i \in 1..Len(messages) - 1 :
        /\ messages[i].sender = "bot" /\ messages[i].text = Some(text)
        /\ messages[i + 1].sender = "user" /\ messages[i + 1].text = Some(answer)

\* C31: userEmail is unset or a text that passes the email pattern; it is
\* unset while the step is not COMPLETED, and it is unset at COMPLETED when
\* the session declined at INITIAL or answered "Yes" to the loan question.
C31_EmailOnlyValidated ==
    /\ IsNull(state.userEmail) \/ emailRegexTest(Val(state.userEmail))
    /\ Step # "COMPLETED" => IsNull(state.userEmail)
    /\ (HandledAt("INITIAL") /\ Step = "COMPLETED") => IsNull(state.userEmail)
    /\ (Step = "COMPLETED" /\ Answered(FinancialText, Yes)) => IsNull(state.userEmail)

\* the position of a step in the order of the conversation
StepOrder ==
    <<"INITIAL", "CONFIRM_FILTERS", "EDIT_LOCATION", "PROPERTY_TYPE", "BEDROOMS",
      "PUBLIC_TRANSPORT", "SCHOOLS", "TIMELINE", "FINANCIAL_READINESS", "EMAIL_REQUEST",
      "COMPLETED">>
Rank(step) == CHOOSE i \in 1..Len(StepOrder) : StepOrder[i] = step

\* C32: every processed input keeps the step or moves it to a later step of
\* the order INITIAL .. COMPLETED, so a step that was left is not entered again.
C32_ForwardOnly ==
    Handled => Rank(Step) >= Rank(last.state.currentState)

\* nothing is pending: no request, no timeout, no turn in its typing delay
Quiescent ==
    /\ ~isLoading /\ inFlight = <<>>
    /\ timer # "armed" /\ initiateCall # "pending"

\* the inputs the interface lets the user submit now: the options rendered
\* as buttons, and a text when the field is enabled and the form accepts it
Submittable ==
    RenderedOptions
    \cup {userInput \in TypedAt(Step) :
             /\ isInputEnabled(state)
             /\ trim(userInput) # <<>>
             /\ Step = "EMAIL_REQUEST" => validateInput(userInput, "email")}

\* handled in this state, the input moves the step to a later one
Advances(st, input) ==
    Rank(Dispatch(st, handleUserResponse(st, input, 0).dispatched).currentState)
       > Rank(st.currentState)

\* C33: a session that is not COMPLETED and waits for the user is never
\* stuck: some input the interface allows (an active option or a text in the
\* enabled field) advances the step; every accepted input moves the step to
\* a later one of the eleven, so COMPLETED is reached after at most 10 accepted
\* inputs.
C33_NeverStuck ==
    /\ (Step # "COMPLETED" /\ Quiescent)
       => \E input \in Submittable : Advances(state, input)
    /\ (Handled /\ Dispatches(Val(last.closure), Val(last.input)))
       => Rank(Step) > Rank(last.state.currentState)
    /\ Len(StepOrder) - 1 = 10

SeqToSet(seq) == {seq[i] : i \in 1..Len(seq)}

\* the option literals of the prompt of each step
OptionsFor(step) ==
    CASE step = "INITIAL" -> {YesPlease, NoThanks}
      [] step = "CONFIRM_FILTERS" -> {Confirm, Edit}
      [] step = "PROPERTY_TYPE" -> SeqToSet(PROPERTY_TYPES)
      [] step \in {"PUBLIC_TRANSPORT", "SCHOOLS"} -> {Yes, No}
      [] step = "TIMELINE" -> SeqToSet(TIMELINE_OPTIONS)
      [] step = "FINANCIAL_READINESS" -> {Yes, No, DontShare}
      [] OTHER -> {}

\* the options that were rendered as buttons in the render a step started from
OptionsBefore ==
    UNION {SeqToSet(Val(last.messages[i].options)) :
              i \in {j \in 1..Len(last.messages) :
                        /\ ~IsNull(last.messages[j].options)
                        /\ Some(last.messages[j].id) = last.lastActive}}

\* C34: a typed text is submitted only while the step is EDIT_LOCATION,
\* BEDROOMS or EMAIL_REQUEST; at every other step what is submitted is an
\* option of the active prompt (or the initialResponse at INITIAL), so the
\* Yes / No, timeline and property-type steps get no out-of-vocabulary text.
C34_TextOnlyWhereEnabled ==
    /\ last.op = "send"
       => \/ /\ isInputEnabled(last.state)
             /\ last.state.currentState \in {"EDIT_LOCATION", "BEDROOMS", "EMAIL_REQUEST"}
          \/ /\ Val(last.input) \in OptionsBefore
             /\ Val(last.input) \in OptionsFor(last.state.currentState)
          \/ /\ last.state.currentState = "INITIAL"
             /\ last.input = initialResponse
    /\ last.op = "formRejected" => last.state.currentState = "EMAIL_REQUEST"
    /\ \A step \in {"PROPERTY_TYPE", "PUBLIC_TRANSPORT", "SCHOOLS", "TIMELINE",
                    "FINANCIAL_READINESS", "CONFIRM_FILTERS"} :
          HandledAt(step) => Val(last.input) \in OptionsFor(step)
C34_Witness ==
    /\ HandledAt("SCHOOLS") /\ last.input = Some(No)
    /\ \E i \in 1..Len(UserTexts) : UserTexts[i] = Purple

\* the prompts whose options are rendered as buttons
ActivePrompts ==
    {i \in 1..Len(messages) :
        ~IsNull(messages[i].options) /\ Some(messages[i].id) = lastActiveMessageId}

\* C35: at most one prompt has selectable options, and it is the last prompt
\* of the transcript that carries options; once an input is submitted no
\* option is selectable, and the options selectable are those of the current
\* step, so an option of an earlier step cannot be submitted at a later one.
C35_OneActivePrompt ==
    /\ Cardinality(ActivePrompts) <= 1
    /\ \A i \in ActivePrompts :
          /\ \A j \in i + 1..Len(messages) : IsNull(messages[j].options)
          /\ RenderedOptions = SeqToSet(Val(messages[i].options))
    /\ ActivePrompts = {} => RenderedOptions = {}
    /\ last.op = "send" => RenderedOptions = {}
    /\ RenderedOptions \subseteq OptionsFor(Step)
    /\ (last.op = "send" /\ Val(last.input) \in OptionsBefore)
       => Val(last.input) \in OptionsFor(last.state.currentState)

\* the one filter and the one preference a step collects
FilterOf(step) ==
    CASE step = "EDIT_LOCATION" -> {"location"}
      [] step = "PROPERTY_TYPE" -> {"propertyType"}
      [] step = "BEDROOMS" -> {"bedrooms"}
      [] OTHER -> {}
PreferenceOf(step) ==
    CASE step = "PUBLIC_TRANSPORT" -> {"publicTransport"}
      [] step = "SCHOOLS" -> {"schools"}
      [] step = "TIMELINE" -> {"timeline"}
      [] step = "FINANCIAL_READINESS" -> {"hasPreApprovedLoan"}
      [] OTHER -> {}

\* C36: a processed input changes only the step and the field its step
\* collects; every other filter (the seeded price and propertySubtype and
\* existingFilters among them), every other preference and the email are
\* left as they were, and a rejected input changes nothing.
FrameOf(step, before, after) ==
    /\ \A k \in DOMAIN before.filters \ FilterOf(step) :
          after.filters[k] = before.filters[k]
    /\ DOMAIN after.filters = DOMAIN before.filters
    /\ \A k \in DOMAIN before.preferences \ PreferenceOf(step) :
          after.preferences[k] = before.preferences[k]
    /\ DOMAIN after.preferences = DOMAIN before.preferences
    /\ step # "EMAIL_REQUEST" => after.userEmail = before.userEmail
C36_FrameEffect ==
    Handled
    => /\ FrameOf(Val(last.closure).currentState, last.state, state)
       /\ ~Dispatches(Val(last.closure), Val(last.input)) => state = last.state
C36_Witness ==
    /\ HandledAt("EDIT_LOCATION") /\ searchCriteria = Some(SeedLondon)
    /\ state.filters.location = Some(Manchester)
    /\ state.filters.propertySubtype = Some(Flat)
    /\ state.filters.price = SeedLondon.price
    /\ state.filters.existingFilters

\* C37: hasPreApprovedLoan is written by no step other than
\* FINANCIAL_READINESS: when it is set the timeline is "ASAP", and it is unset
\* in a session in which the loan question was not asked.
C37_LoanOnlyWhenAsked ==
    /\ ~IsNull(state.preferences.hasPreApprovedLoan)
       => state.preferences.timeline = Some(ASAP)
    /\ (~Prompted(FinancialText) /\ state.preferences.timeline # Some(ASAP))
       => IsNull(state.preferences.hasPreApprovedLoan)
    /\ (Handled /\ Val(last.closure).currentState # "FINANCIAL_READINESS")
       => state.preferences.hasPreApprovedLoan = last.state.preferences.hasPreApprovedLoan
C37_Witness ==
    /\ HandledAt("TIMELINE") /\ Step = "EMAIL_REQUEST"
    /\ state.preferences.timeline = Some(Months13)
    /\ ~Prompted(FinancialText)
    /\ IsNull(state.preferences.hasPreApprovedLoan)

\* C38: the answers of earlier steps are held at later steps: publicTransport
\* from SCHOOLS to EMAIL_REQUEST, schools from TIMELINE to EMAIL_REQUEST, the
\* timeline at FINANCIAL_READINESS and EMAIL_REQUEST, and the location at
\* PROPERTY_TYPE and BEDROOMS.
C38_EarlierAnswersHeld ==
    /\ Step \in {"SCHOOLS", "TIMELINE", "FINANCIAL_READINESS", "EMAIL_REQUEST"}
       => ~IsNull(state.preferences.publicTransport)
    /\ Step \in {"TIMELINE", "FINANCIAL_READINESS", "EMAIL_REQUEST"}
       => ~IsNull(state.preferences.schools)
    /\ Step \in {"FINANCIAL_READINESS", "EMAIL_REQUEST"}
       => ~IsNull(state.preferences.timeline)
    /\ Step \in {"PROPERTY_TYPE", "BEDROOMS"}
       => ~IsNull(state.filters.location)
====
